---------------------------- MODULE Spec2Model ----------------------------
(***************************************************************************)
(* Two-Player Dungeons & Dragons notebook (src/unnamed/part_000):          *)
(* the DialogueAgent and DialogueSimulator classes and the caller that     *)
(* drives them.  Strings are Python strings; message_history is the        *)
(* growing string the code keeps, not a list of entries.                   *)
(***************************************************************************)
EXTENDS Naturals, Sequences, FiniteSets, TLC

(* ------------------------------ bounds -------------------------------- *)
MaxAgents == 3
MaxSteps == 3
MaxResets == 2

(* ------------------------------ inputs -------------------------------- *)
\* Agents the caller may construct: (name, system_message content).
Personas == { <<"A", "be A">>, <<"B", "be B">> }
\* Names the caller may pass to reset: a roster member or an outsider.
SeedNames == { "A", "N" }
\* Messages the caller may pass to reset.
SeedMessages == { "q" }
\* Contents the chat model may answer with (one holds a newline and a colon).
Replies == { "x", "y\nB: z" }
\* Exceptions the chat model may raise instead of answering.
Errors == { "timeout", "rate limit" }

VARIABLES
    agents,     \* DialogueSimulator.agents: the list of DialogueAgent objects
    step,       \* DialogueSimulator._step
    pc,         \* where control is: "idle" (caller), "reset", "send", "broadcast"
    i,          \* index of the for loop in reset / step
    args,       \* reset's arguments <<name, message>>
    speaker,    \* step's local: index of the selected agent (0-based)
    message,    \* step's local: what speaker.send() returned
    request,    \* the model call in flight: [system, content]
    answer,     \* the content of the model's last answer, as the model gave it
    thrown,     \* the exception the model raised in the operation in progress
    oracleCalls, \* how many times the operation in progress called the model
    returned,   \* what the last finished call gave its caller
    history,    \* what the caller has printed: the seed and each step's pair
                \* (with the index of the agent that spoke)
    calls,      \* send / receive calls made by the operation in progress
    pre,        \* agents and _step when the operation in progress was called
    heap,       \* two conversations: the DialogueAgent objects, by reference
    sims        \* two conversations: the two DialogueSimulator objects

vars == << agents, step, pc, i, args, speaker, message, request, answer, thrown,
           oracleCalls, returned,
           history, calls, pre, heap, sims >>

\* The variables of the single conversation.
single == << agents, step, pc, i, args, speaker, message, request, answer, thrown,
             oracleCalls, returned, history, calls, pre >>

(* --------------------------- DialogueAgent ---------------------------- *)
Header == "Here is the conversation so far.\n        "

Prefix(name) == "\n" \o name \o ":"

\* Mutant: the header of message_history addresses the agent by name.
NewAgent_HeaderNamesAgent(name, system_message) ==
    [ name            |-> name,
      system_message  |-> system_message,
      message_history |-> Header \o name,
      prefix          |-> Prefix(name) ]

NewAgent(name, system_message) ==
    [ name            |-> name,
      system_message  |-> system_message,
      message_history |-> Header,
      prefix          |-> Prefix(name) ]

\* Mutant: the cue is put in front of the conversation instead of after it.
SendContent_CueFirst(agent) == agent.prefix \o agent.message_history

\* The HumanMessage content send() hands to the model.
SendContent(agent) == agent.message_history \o agent.prefix

\* What receive() concatenates into message_history.
Entry(name, msg) == "\n" \o name \o ": " \o msg

\* Mutant: receive also stores the speaker's name as the agent's own.
receive_TakesName(agent, name, msg) ==
    [ agent EXCEPT !.message_history = @ \o Entry(name, msg), !.name = name ]

\* Mutant: receive keeps only the latest entry after the header.
receive_Overwrite(agent, name, msg) ==
    [ agent EXCEPT !.message_history = Header \o Entry(name, msg) ]

\* Mutant: receive rebuilds the cue from the name it was called with.
receive_RebuildsPrefix(agent, name, msg) ==
    [ agent EXCEPT !.message_history = @ \o Entry(name, msg),
                   !.prefix = Prefix(name) ]

receive(agent, name, msg) ==
    [ agent EXCEPT !.message_history = @ \o Entry(name, msg) ]

(* ------------------------- DialogueSimulator -------------------------- *)
NumAgents == Len(agents)

\* Mutant: the "+ 1" offset is dropped.
select_next_speaker_NoOffset(s) == s % NumAgents

\* Mutant: no wrap-around: past the end of the list the last agent is kept.
select_next_speaker_Clamped(s) ==
    IF s + 1 < NumAgents THEN s + 1 ELSE NumAgents - 1

select_next_speaker(s) == (s + 1) % NumAgents

NoRequest == [ system |-> "", content |-> "" ]
NoReturn == [ kind |-> "none", name |-> "", message |-> "" ]
Snapshot == [ agents |-> agents, step |-> step ]

SendCall(idx) == [ fn |-> "send", agent |-> idx, name |-> "", message |-> "" ]
ReceiveCall(idx, name, msg) ==
    [ fn |-> "receive", agent |-> idx, name |-> name, message |-> msg ]

\* The lists DialogueSimulator may be built on: one to MaxAgents agents, each
\* a separate DialogueAgent object; two of them may carry the same name.  The
\* empty list is left out: select_next_speaker divides by len(self.agents).
Rosters ==
    UNION { [ 1..k -> Personas ] : k \in 1..MaxAgents }

Init ==
    /\ \E r \in Rosters :
         agents = [ k \in DOMAIN r |-> NewAgent(r[k][1], r[k][2]) ]
    /\ step = 0
    /\ pc = "idle"
    /\ i = 0
    /\ args = << "", "" >>
    /\ speaker = 0
    /\ message = ""
    /\ request = NoRequest
    /\ answer = ""
    /\ thrown = ""
    /\ oracleCalls = 0
    /\ returned = NoReturn
    /\ history = << >>
    /\ calls = << >>
    /\ pre = Snapshot
    /\ heap = << >>
    /\ sims = << >>

\* The number of reset calls the caller has finished.
NumResets == Cardinality({ k \in DOMAIN history : history[k].op = "reset" })

\* Mutant: reset also rewinds the step counter.
ResetCall_ZeroesStep(name, msg) ==
    /\ pc = "idle"
    /\ NumResets < MaxResets
    /\ thrown' = ""
    /\ oracleCalls' = 0
    /\ pc' = "reset"
    /\ i' = 0
    /\ args' = << name, msg >>
    /\ calls' = << >>
    /\ pre' = Snapshot
    /\ step' = 0
    /\ UNCHANGED << answer, agents, speaker, message, request, returned, history >>
    /\ UNCHANGED << heap, sims >>

\* simulator.reset(name, message) is called.
ResetCall(name, msg) ==
    /\ pc = "idle"
    /\ NumResets < MaxResets
    /\ thrown' = ""
    /\ oracleCalls' = 0
    /\ pc' = "reset"
    /\ i' = 0
    /\ args' = << name, msg >>
    /\ calls' = << >>
    /\ pre' = Snapshot
    /\ UNCHANGED << answer, agents, step, speaker, message, request, returned,
                    history >>
    /\ UNCHANGED << heap, sims >>

\* Mutant: reset does not tell an agent the line spoken under its own name.
ResetReceive_SkipsNamed ==
    /\ pc = "reset"
    /\ i < NumAgents
    /\ IF agents[i + 1].name = args[1]
         THEN UNCHANGED << agents, calls >>
         ELSE /\ agents' = [ agents EXCEPT ![i + 1] = receive(@, args[1], args[2]) ]
              /\ calls' = Append(calls, ReceiveCall(i, args[1], args[2]))
    /\ i' = i + 1
    /\ UNCHANGED << thrown, oracleCalls, answer, step, pc, args, speaker, message,
                    request, returned, history, pre >>
    /\ UNCHANGED << heap, sims >>

\* Mutant: reset seeds an agent only while its message_history is still fresh.
ResetReceive_OnlyIfFresh ==
    /\ pc = "reset"
    /\ i < NumAgents
    /\ IF agents[i + 1].message_history # Header
         THEN UNCHANGED << agents, calls >>
         ELSE /\ agents' = [ agents EXCEPT ![i + 1] = receive(@, args[1], args[2]) ]
              /\ calls' = Append(calls, ReceiveCall(i, args[1], args[2]))
    /\ i' = i + 1
    /\ UNCHANGED << thrown, oracleCalls, answer, step, pc, args, speaker, message,
                    request, returned, history, pre >>
    /\ UNCHANGED << heap, sims >>

\* Mutant: receive is skipped when the name is not the name of an agent.
ResetReceive_MembersOnly ==
    /\ pc = "reset"
    /\ i < NumAgents
    /\ IF \A a \in 1..NumAgents : agents[a].name # args[1]
         THEN UNCHANGED << agents, calls >>
         ELSE /\ agents' = [ agents EXCEPT ![i + 1] = receive(@, args[1], args[2]) ]
              /\ calls' = Append(calls, ReceiveCall(i, args[1], args[2]))
    /\ i' = i + 1
    /\ UNCHANGED << thrown, oracleCalls, answer, step, pc, args, speaker, message,
                    request, returned, history, pre >>
    /\ UNCHANGED << heap, sims >>

\* One iteration of reset's loop: agent.receive(name, message).
ResetReceive ==
    /\ pc = "reset"
    /\ i < NumAgents
    /\ agents' = [ agents EXCEPT ![i + 1] = receive(@, args[1], args[2]) ]
    /\ calls' = Append(calls, ReceiveCall(i, args[1], args[2]))
    /\ i' = i + 1
    /\ UNCHANGED << thrown, oracleCalls, answer, step, pc, args, speaker, message,
                    request, returned, history, pre >>
    /\ UNCHANGED << heap, sims >>

\* reset's loop is over; the caller prints the seed.
ResetReturn ==
    /\ pc = "reset"
    /\ i = NumAgents
    /\ pc' = "idle"
    /\ returned' = [ kind |-> "reset", name |-> "", message |-> "" ]
    /\ history' = Append(history,
                         [ op |-> "reset", name |-> args[1], message |-> args[2] ])
    /\ UNCHANGED << thrown, oracleCalls, answer, agents, step, i, args,
                    speaker, message, request, calls, pre >>
    /\ UNCHANGED << heap, sims >>

\* Mutant: time is incremented before the speaker sends.
StepCall_IncrementFirst ==
    /\ pc = "idle"
    /\ step < MaxSteps
    /\ LET idx == select_next_speaker(step) IN
         /\ speaker' = idx
         /\ request' = [ system  |-> agents[idx + 1].system_message,
                         content |-> SendContent(agents[idx + 1]) ]
         /\ calls' = << SendCall(idx) >>
    /\ step' = step + 1
    /\ thrown' = ""
    /\ oracleCalls' = 1
    /\ pc' = "send"
    /\ pre' = Snapshot
    /\ UNCHANGED << answer, agents, i, args, message, returned, history >>
    /\ UNCHANGED << heap, sims >>

\* Mutant: the speaker's send is called twice.
StepCall_SendTwice ==
    /\ pc = "idle"
    /\ step < MaxSteps
    /\ LET idx == select_next_speaker(step) IN
         /\ speaker' = idx
         /\ request' = [ system  |-> agents[idx + 1].system_message,
                         content |-> SendContent(agents[idx + 1]) ]
         /\ calls' = << SendCall(idx), SendCall(idx) >>
    /\ thrown' = ""
    /\ oracleCalls' = 2
    /\ pc' = "send"
    /\ pre' = Snapshot
    /\ UNCHANGED << answer, agents, step, i, args, message, returned, history >>
    /\ UNCHANGED << heap, sims >>

\* Mutant: the speaker is selected from the number of messages so far, not
\* from the step counter.
StepBegin_SelectsByHistory ==
    /\ pc = "idle"
    /\ LET idx == select_next_speaker(Len(history)) IN
         /\ speaker' = idx
         /\ request' = [ system  |-> agents[idx + 1].system_message,
                         content |-> SendContent(agents[idx + 1]) ]
         /\ calls' = << SendCall(idx) >>
    /\ thrown' = ""
    /\ oracleCalls' = 1
    /\ pc' = "send"
    /\ pre' = Snapshot
    /\ UNCHANGED << answer, agents, step, i, args, message, returned, history >>
    /\ UNCHANGED << heap, sims >>

\* Mutant: step refuses to run once two turns were taken.
StepBegin_Budgeted ==
    /\ pc = "idle"
    /\ step < 2
    /\ LET idx == select_next_speaker(step) IN
         /\ speaker' = idx
         /\ request' = [ system  |-> agents[idx + 1].system_message,
                         content |-> SendContent(agents[idx + 1]) ]
         /\ calls' = << SendCall(idx) >>
    /\ thrown' = ""
    /\ oracleCalls' = 1
    /\ pc' = "send"
    /\ pre' = Snapshot
    /\ UNCHANGED << answer, agents, step, i, args, message, returned, history >>
    /\ UNCHANGED << heap, sims >>

\* simulator.step() is called: it selects the speaker and the speaker's
\* send() calls the model, which has not answered yet.
StepBegin ==
    /\ pc = "idle"
    /\ LET idx == select_next_speaker(step) IN
         /\ speaker' = idx
         /\ request' = [ system  |-> agents[idx + 1].system_message,
                         content |-> SendContent(agents[idx + 1]) ]
         /\ calls' = << SendCall(idx) >>
    /\ thrown' = ""
    /\ oracleCalls' = 1
    /\ pc' = "send"
    /\ pre' = Snapshot
    /\ UNCHANGED << answer, agents, step, i, args, message, returned, history >>
    /\ UNCHANGED << heap, sims >>

\* A caller that stops calling step after MaxSteps turns.
StepCall ==
    /\ step < MaxSteps
    /\ StepBegin

\* Mutant: send returns its cue followed by the model's content.
SendReturn_WithPrefix(content) ==
    /\ pc = "send"
    /\ answer' = content
    /\ message' = agents[speaker + 1].prefix \o content
    /\ request' = NoRequest
    /\ pc' = "broadcast"
    /\ i' = 0
    /\ UNCHANGED << thrown, oracleCalls, agents, step, args, speaker, returned,
                    history, calls, pre >>
    /\ UNCHANGED << heap, sims >>

\* Mutant: send appends the speaker's own output to its own message_history.
SendReturn_SelfAppend(content) ==
    /\ pc = "send"
    /\ answer' = content
    /\ message' = content
    /\ request' = NoRequest
    /\ pc' = "broadcast"
    /\ i' = 0
    /\ agents' = [ agents EXCEPT
                     ![speaker + 1] = receive(@, agents[speaker + 1].name, content) ]
    /\ UNCHANGED << thrown, oracleCalls, step, args, speaker, returned,
                    history, calls, pre >>
    /\ UNCHANGED << heap, sims >>

\* The model answers; send() returns message.content.
SendReturn(content) ==
    /\ pc = "send"
    /\ answer' = content
    /\ message' = content
    /\ request' = NoRequest
    /\ pc' = "broadcast"
    /\ i' = 0
    /\ UNCHANGED << thrown, oracleCalls, agents, step, args, speaker, returned,
                    history, calls, pre >>
    /\ UNCHANGED << heap, sims >>

\* Mutant: a failed turn still counts: time is incremented on the way out.
SendRaise_CountsTurn(err) ==
    /\ pc = "send"
    /\ thrown' = err
    /\ request' = NoRequest
    /\ pc' = "idle"
    /\ step' = step + 1
    /\ returned' = [ kind |-> "raised", name |-> "", message |-> err ]
    /\ UNCHANGED << oracleCalls, answer, agents, i, args, speaker, message, history,
                    calls, pre >>
    /\ UNCHANGED << heap, sims >>

\* Mutant: send calls the model a second time when the first call raises.
SendRaise_RetriesOnce(err) ==
    /\ pc = "send"
    /\ IF oracleCalls < 2
         THEN /\ oracleCalls' = oracleCalls + 1
              /\ UNCHANGED << thrown, request, pc, returned >>
         ELSE /\ thrown' = err
              /\ request' = NoRequest
              /\ pc' = "idle"
              /\ returned' = [ kind |-> "raised", name |-> "", message |-> err ]
              /\ UNCHANGED oracleCalls
    /\ UNCHANGED << answer, agents, step, i, args, speaker, message, history,
                    calls, pre >>
    /\ UNCHANGED << heap, sims >>

\* Mutant: a failed send notes the error in the speaker's message_history.
SendRaise_NotesError(err) ==
    /\ pc = "send"
    /\ thrown' = err
    /\ request' = NoRequest
    /\ pc' = "idle"
    /\ returned' = [ kind |-> "raised", name |-> "", message |-> err ]
    /\ agents' = [ agents EXCEPT
                     ![speaker + 1] = receive(@, agents[speaker + 1].name, err) ]
    /\ UNCHANGED << oracleCalls, answer, step, i, args, speaker,
                    message, history, calls, pre >>
    /\ UNCHANGED << heap, sims >>

\* The model call raises err; the exception leaves send() and step() as it
\* is (returned.message holds it).
SendRaise(err) ==
    /\ pc = "send"
    /\ thrown' = err
    /\ request' = NoRequest
    /\ pc' = "idle"
    /\ returned' = [ kind |-> "raised", name |-> "", message |-> err ]
    /\ UNCHANGED << oracleCalls, answer, agents, step, i, args, speaker,
                    message, history, calls, pre >>
    /\ UNCHANGED << heap, sims >>

\* Mutant: receive rejects a message spoken under the receiver's own name;
\* the exception leaves step().
StepReceive_RaisesOnOwn ==
    /\ pc = "broadcast"
    /\ i < NumAgents
    /\ IF agents[i + 1].name = agents[speaker + 1].name
         THEN /\ pc' = "idle"
              /\ returned' = [ kind |-> "raised", name |-> "",
                               message |-> "own message" ]
              /\ UNCHANGED << agents, calls, i >>
         ELSE /\ agents' = [ agents EXCEPT
                   ![i + 1] = receive(@, agents[speaker + 1].name, message) ]
              /\ calls' = Append(calls,
                                 ReceiveCall(i, agents[speaker + 1].name, message))
              /\ i' = i + 1
              /\ UNCHANGED << pc, returned >>
    /\ UNCHANGED << thrown, oracleCalls, answer, step, args, speaker, message,
                    request, history, pre >>
    /\ UNCHANGED << heap, sims >>

\* Mutant: the message goes to all other agents, not to the speaker.
StepReceive_SkipSpeaker ==
    /\ pc = "broadcast"
    /\ i < NumAgents
    /\ IF i = speaker
         THEN UNCHANGED << agents, calls >>
         ELSE /\ agents' = [ agents EXCEPT
                   ![i + 1] = receive(@, agents[speaker + 1].name, message) ]
              /\ calls' = Append(calls,
                                 ReceiveCall(i, agents[speaker + 1].name, message))
    /\ i' = i + 1
    /\ UNCHANGED << thrown, oracleCalls, answer, step, pc, args, speaker, message,
                    request, returned, history, pre >>
    /\ UNCHANGED << heap, sims >>

\* Mutant: the loop walks the agents from the last to the first.
StepReceive_Reversed ==
    /\ pc = "broadcast"
    /\ i < NumAgents
    /\ LET r == NumAgents - 1 - i IN
         /\ agents' = [ agents EXCEPT
                          ![r + 1] = receive(@, agents[speaker + 1].name, message) ]
         /\ calls' = Append(calls, ReceiveCall(r, agents[speaker + 1].name, message))
    /\ i' = i + 1
    /\ UNCHANGED << thrown, oracleCalls, answer, step, pc, args, speaker, message,
                    request, returned, history, pre >>
    /\ UNCHANGED << heap, sims >>

\* One iteration of step's loop: receiver.receive(speaker.name, message).
StepReceive ==
    /\ pc = "broadcast"
    /\ i < NumAgents
    /\ agents' = [ agents EXCEPT
                     ![i + 1] = receive(@, agents[speaker + 1].name, message) ]
    /\ calls' = Append(calls, ReceiveCall(i, agents[speaker + 1].name, message))
    /\ i' = i + 1
    /\ UNCHANGED << thrown, oracleCalls, answer, step, pc, args, speaker, message,
                    request, returned, history, pre >>
    /\ UNCHANGED << heap, sims >>

\* Mutant: time is incremented twice.
StepReturn_DoubleIncrement ==
    /\ pc = "broadcast"
    /\ i = NumAgents
    /\ step' = step + 2
    /\ pc' = "idle"
    /\ returned' = [ kind |-> "ok", name |-> agents[speaker + 1].name,
                     message |-> message ]
    /\ history' = Append(history,
                         [ op |-> "step", name |-> agents[speaker + 1].name,
                           message |-> message, agent |-> speaker ])
    /\ UNCHANGED << thrown, oracleCalls, answer, agents, i, args, speaker,
                    message, request, calls, pre >>
    /\ UNCHANGED << heap, sims >>

\* Mutant: round robin by rotation: the speaker is moved to the back of the list.
StepReturn_RotatesRoster ==
    /\ pc = "broadcast"
    /\ i = NumAgents
    /\ step' = step + 1
    /\ pc' = "idle"
    /\ agents' = Append(Tail(agents), Head(agents))
    /\ returned' = [ kind |-> "ok", name |-> agents[speaker + 1].name,
                     message |-> message ]
    /\ history' = Append(history,
                         [ op |-> "step", name |-> agents[speaker + 1].name,
                           message |-> message, agent |-> speaker ])
    /\ UNCHANGED << thrown, oracleCalls, answer, i, args, speaker,
                    message, request, calls, pre >>
    /\ UNCHANGED << heap, sims >>

\* step's loop is over: increment time, return (speaker.name, message);
\* the caller prints the pair.
StepReturn ==
    /\ pc = "broadcast"
    /\ i = NumAgents
    /\ step' = step + 1
    /\ pc' = "idle"
    /\ returned' = [ kind |-> "ok", name |-> agents[speaker + 1].name,
                     message |-> message ]
    /\ history' = Append(history,
                         [ op |-> "step", name |-> agents[speaker + 1].name,
                           message |-> message, agent |-> speaker ])
    /\ UNCHANGED << thrown, oracleCalls, answer, agents, i, args, speaker,
                    message, request, calls, pre >>
    /\ UNCHANGED << heap, sims >>

Next ==
    \/ \E name \in SeedNames, msg \in SeedMessages : ResetCall(name, msg)
    \/ ResetReceive
    \/ ResetReturn
    \/ StepCall
    \/ \E content \in Replies : SendReturn(content)
    \/ \E err \in Errors : SendRaise(err)
    \/ StepReceive
    \/ StepReturn

Spec == Init /\ [][Next]_vars

(* ----------------------- what the claims speak of ---------------------- *)
\* The text that receiving the entries of h, in order, adds to message_history.
RECURSIVE Render(_)
Render(h) ==
    IF h = << >> THEN ""
    ELSE Render(SubSeq(h, 1, Len(h) - 1)) \o Entry(h[Len(h)].name, h[Len(h)].message)

\* The pairs the successful step calls returned, in order.
StepEntries == SelectSeq(history, LAMBDA e : e.op = "step")

\* The caller called reset once, first, and only step since.
OnePrimeThenAdvances ==
    /\ Len(history) >= 1
    /\ history[1].op = "reset"
    /\ \A k \in 2..Len(history) : history[k].op = "step"

\* A step call is in progress, or was the last call to finish.
InStep ==
    \/ pc \in { "send", "broadcast" }
    \/ pc = "idle" /\ returned.kind \in { "ok", "raised" }

ReceiveCalls == { k \in DOMAIN calls : calls[k].fn = "receive" }
SendCalls == { k \in DOMAIN calls : calls[k].fn = "send" }

(* -------------------------------- C1 ---------------------------------- *)
\* C1: after one reset followed by completed step calls, every agent's
\* message_history is the same text: the header followed by the seed entry and
\* then one entry per completed step, in the order the steps completed.
C1_TranscriptConsistency ==
    (pc = "idle" /\ OnePrimeThenAdvances) =>
        \A a \in 1..NumAgents :
            agents[a].message_history = Header \o Render(history)

C1_Witness ==
    /\ pc = "idle"
    /\ OnePrimeThenAdvances
    /\ NumAgents = 3
    /\ Len(history) = 3
    /\ history[2].name # history[3].name

(* -------------------------------- C2 ---------------------------------- *)
\* C2: when the model call inside send fails during step, control goes back
\* to the caller with the error, and the agents (every message_history) and
\* _step are what they were when step was called; no receive was performed.
C2_AtomicFailure ==
    [][ (pc = "send" /\ pc' = "idle") =>
            /\ returned'.kind = "raised"
            /\ agents' = pre.agents
            /\ step' = pre.step
            /\ { k \in DOMAIN calls' : calls'[k].fn = "receive" } = { }
            /\ history' = history ]_vars

C2_Witness ==
    /\ pc = "idle"
    /\ returned.kind = "raised"
    /\ step = 1
    /\ Len(history) = 2
    /\ NumAgents >= 2

(* -------------------------------- C3 ---------------------------------- *)
\* C3: _step starts at 0 and always equals the number of step calls that
\* completed: a successful step adds one, a failed step and reset add nothing.
C3_TurnIndexCountsCompleted ==
    step = Len(StepEntries)

C3_Witness ==
    /\ pc = "idle"
    /\ returned.kind = "raised"
    /\ step = 2
    /\ NumResets = 2

(* -------------------------------- C4 ---------------------------------- *)
\* C4: the index select_next_speaker gives for _step = t with K agents is the
\* remainder of t + 1 by K: it lies in 0..K-1 and differs from t + 1 by a
\* multiple of K.
C4_RoundRobinIndex ==
    InStep =>
        /\ speaker \in 0..(NumAgents - 1)
        /\ \E q \in 0..(pre.step + 1) : pre.step + 1 = q * NumAgents + speaker

C4_Witness ==
    /\ pc = "send"
    /\ NumAgents = 3
    /\ pre.step = 2
    /\ speaker = 0

(* -------------------------------- C5 ---------------------------------- *)
\* C5: with two agents [A, B], the successful steps are spoken by B, A, B, ...:
\* the n-th (from 0) by the second agent when n is even, by the first when odd.
C5_TwoMemberOrder ==
    NumAgents = 2 =>
        \A n \in 1..Len(StepEntries) :
            StepEntries[n].name =
                IF (n - 1) % 2 = 0 THEN agents[2].name ELSE agents[1].name

C5_Witness ==
    /\ NumAgents = 2
    /\ agents[1].name = "A"
    /\ agents[2].name = "B"
    /\ Len(StepEntries) = 3
    /\ StepEntries[1].name = "B"
    /\ StepEntries[2].name = "A"
    /\ StepEntries[3].name = "B"

(* -------------------------------- C6 ---------------------------------- *)
\* C6: in a step, after the speaker's send, the receive calls are made on the
\* agents in roster order, each with (speaker.name, message); when step returns
\* every agent, the speaker included, has received the entry exactly once.
C6_BroadcastInRosterOrder ==
    InStep =>
        /\ \A k \in 2..Len(calls) :
               calls[k] = ReceiveCall(k - 2, pre.agents[speaker + 1].name, message)
        /\ (pc = "idle" /\ returned.kind = "ok") =>
               /\ Len(calls) = NumAgents + 1
               /\ \A a \in 1..NumAgents :
                      agents[a].message_history =
                          pre.agents[a].message_history
                              \o Entry(pre.agents[speaker + 1].name, message)

C6_Witness ==
    /\ pc = "idle"
    /\ returned.kind = "ok"
    /\ NumAgents = 3
    /\ speaker = 1
    /\ calls[2].agent = 0
    /\ calls[3].agent = 1
    /\ calls[4].agent = 2

(* -------------------------------- C7 ---------------------------------- *)
\* C7: a successful step returns the name of the agent selected for the _step
\* it was called at together with the model's content as the model gave it,
\* and that pair is the entry the step added last to every message_history.
C7_ReturnedPair ==
    (pc = "idle" /\ returned.kind = "ok") =>
        /\ returned.name = pre.agents[select_next_speaker(pre.step) + 1].name
        /\ returned.message = answer
        /\ \A a \in 1..NumAgents :
               agents[a].message_history =
                   pre.agents[a].message_history
                       \o Entry(returned.name, returned.message)

C7_Witness ==
    /\ pc = "idle"
    /\ returned.kind = "ok"
    /\ returned.name = "B"
    /\ returned.message = "y\nB: z"
    /\ step = 2

(* -------------------------------- C8 ---------------------------------- *)
\* C8: during a step exactly one send is called, once, on the agent selected
\* for the current _step; the model call in flight carries that agent's
\* system message.
C8_SingleWriter ==
    InStep =>
        /\ Cardinality(SendCalls) = 1
        /\ calls[1] = SendCall(select_next_speaker(pre.step))
        /\ pc = "send" =>
               request.system =
                   agents[select_next_speaker(pre.step) + 1].system_message

C8_Witness ==
    /\ pc = "idle"
    /\ returned.kind = "ok"
    /\ NumAgents = 3
    /\ pre.step = 1
    /\ calls[1] = SendCall(2)

(* -------------------------------- C9 ---------------------------------- *)
\* C9: send changes no state: while the model call is in flight, after it
\* failed, and after it succeeded until the first receive, every agent and
\* _step are what they were when step was called.
C9_ProduceHasNoSideEffect ==
    (InStep /\ ReceiveCalls = { }) =>
        /\ agents = pre.agents
        /\ step = pre.step

C9_Witness ==
    /\ pc = "broadcast"
    /\ i = 0
    /\ message = "x"
    /\ step = 1
    /\ NumAgents >= 2

(* -------------------------------- C10 --------------------------------- *)
\* C10: a receive(name, message) on an agent turns its message_history into
\* the old one followed by the entry for (name, message), and leaves the other
\* agents alone; nothing else changes a message_history.
C10_AppendOnly ==
    [][ IF Len(calls') = Len(calls) + 1 /\ calls'[Len(calls')].fn = "receive"
          THEN LET c == calls'[Len(calls')] IN
               /\ agents' = [ agents EXCEPT ![c.agent + 1].message_history =
                                  @ \o Entry(c.name, c.message) ]
               /\ Len(agents'[c.agent + 1].message_history) =
                      Len(agents[c.agent + 1].message_history)
                          + Len(c.name) + Len(c.message) + 3
          ELSE agents' = agents ]_vars

C10_Witness ==
    /\ pc = "broadcast"
    /\ i = 1
    /\ agents[1].message_history = Header \o Entry("N", "q") \o Entry("B", "x")

(* -------------------------------- C11 --------------------------------- *)
\* A reset call was the last call to finish.
AfterReset == pc = "idle" /\ returned.kind = "reset"

\* C11: reset(name, message) makes one receive(name, message) call on every
\* agent and changes nothing else: each agent is what it was with the entry
\* added once to its message_history, the list of agents and _step are the
\* same; on fresh agents every message_history is the header and that entry.
C11_PrimeSeedsEveryone ==
    AfterReset =>
        /\ Len(agents) = Len(pre.agents)
        /\ \A a \in 1..NumAgents :
               /\ agents[a] = [ pre.agents[a] EXCEPT !.message_history =
                                    @ \o Entry(args[1], args[2]) ]
               /\ calls[a] = ReceiveCall(a - 1, args[1], args[2])
               /\ pre.agents[a].message_history = Header =>
                      agents[a].message_history = Header \o Entry(args[1], args[2])
        /\ Len(calls) = NumAgents
        /\ step = pre.step
        /\ history[Len(history)] =
               [ op |-> "reset", name |-> args[1], message |-> args[2] ]

C11_Witness ==
    /\ AfterReset
    /\ NumAgents = 3
    /\ history = << [ op |-> "reset", name |-> "A", message |-> "q" ] >>
    /\ agents[1].name = "A"
    /\ agents[2].name = "B"
    /\ \A a \in 1..NumAgents : agents[a].message_history = Header \o Entry("A", "q")

(* -------------------------------- C12 --------------------------------- *)
\* The last two calls that changed anything were resets with the same arguments.
PrimedTwiceAlike ==
    /\ AfterReset
    /\ Len(history) >= 2
    /\ history[Len(history) - 1].op = "reset"
    /\ history[Len(history) - 1].name = history[Len(history)].name
    /\ history[Len(history) - 1].message = history[Len(history)].message

\* C12: reset is not idempotent: after a second reset with the same arguments
\* every message_history differs from what it was after the first and holds
\* the seed entry twice; on fresh agents it is the header and two copies.
C12_PrimeNotIdempotent ==
    PrimedTwiceAlike =>
        \A a \in 1..NumAgents :
            /\ agents[a].message_history # pre.agents[a].message_history
            /\ Len(history) = 2 =>
                   /\ pre.agents[a].message_history = Header \o Entry(args[1], args[2])
                   /\ agents[a].message_history =
                          Header \o Entry(args[1], args[2]) \o Entry(args[1], args[2])

C12_Witness ==
    /\ PrimedTwiceAlike
    /\ Len(history) = 2
    /\ NumAgents >= 2
    /\ agents[2].message_history = Header \o Entry("N", "q") \o Entry("N", "q")

(* -------------------------------- C13 --------------------------------- *)
\* The last call to finish was a step that failed, and step is running again.
Retrying == pc \in { "send", "broadcast" } /\ returned.kind = "raised"

\* C13: when step is called again right after a step that failed, it starts
\* from the agents and _step the failed call started from and selects the same
\* speaker; when it succeeds, the agents and _step it leaves are those a
\* successful step leaves from that state: the entry added once to every
\* message_history and _step one higher.
C13_SafeRetry ==
    [][ /\ (pc = "idle" /\ returned.kind = "raised" /\ pc' = "send") =>
               /\ pre' = pre
               /\ speaker' = speaker
               /\ request'.content = SendContent(pre.agents[speaker + 1])
        /\ (Retrying /\ pc' = "idle" /\ returned'.kind = "ok") =>
               /\ step' = pre.step + 1
               /\ agents' = [ a \in 1..Len(pre.agents) |->
                                [ pre.agents[a] EXCEPT !.message_history =
                                      @ \o Entry(pre.agents[speaker + 1].name, answer) ] ]
      ]_vars

C13_Witness ==
    /\ Retrying
    /\ pc = "broadcast"
    /\ i = NumAgents
    /\ NumAgents >= 2
    /\ pre.step = 1
    /\ Len(history) = 2

(* -------------------------------- C14 --------------------------------- *)
\* C14: the names of the successful steps are fixed by the list of agents
\* alone: the n-th (from 0) is the name of agents[(n + 1) mod K], whatever the
\* model answered, however many steps failed and wherever reset was called.
C14_SpeakingOrderDetermined ==
    \A n \in 1..Len(StepEntries) :
        StepEntries[n].name = agents[(n % NumAgents) + 1].name

C14_Witness ==
    /\ NumAgents = 3
    /\ agents[1].name = "A"
    /\ agents[2].name = "B"
    /\ agents[3].name = "A"
    /\ Len(history) = 4
    /\ history[1].op = "reset"
    /\ history[3].op = "reset"
    /\ StepEntries[1].name = "B"
    /\ StepEntries[2].name = "A"
    /\ StepEntries[1].message # StepEntries[2].message
    /\ pc = "idle"
    /\ returned.kind = "raised"

(* -------------------------------- C15 --------------------------------- *)
\* Two agents with different names, reset once, first, under the first
\* agent's name, and only step since.
InitiatorPrimed ==
    /\ NumAgents = 2
    /\ agents[1].name # agents[2].name
    /\ OnePrimeThenAdvances
    /\ history[1].name = agents[1].name

\* C15: with two agents [initiator, responder] and one reset under the
\* initiator's name, the names of the entries alternate initiator, responder,
\* initiator, ...: no name comes twice in a row, and every message_history is
\* the rendering of exactly these entries.
C15_Alternation ==
    InitiatorPrimed =>
        /\ \A k \in 1..Len(history) :
               history[k].name =
                   IF k % 2 = 1 THEN agents[1].name ELSE agents[2].name
        /\ \A k \in 1..(Len(history) - 1) : history[k].name # history[k + 1].name
        /\ pc = "idle" =>
               \A a \in 1..NumAgents :
                   agents[a].message_history = Header \o Render(history)

C15_Witness ==
    /\ InitiatorPrimed
    /\ pc = "idle"
    /\ Len(history) = 4
    /\ agents[1].message_history =
           Header \o Entry("A", "q") \o Entry("B", "x") \o Entry("A", "x")
               \o Entry("B", "x")

(* -------------------------------- C16 --------------------------------- *)
\* C16: with at least one agent, only the model call makes step fail.  The
\* selected index is an index of the list and the content for the model is
\* built; once the model has answered, each iteration of the loop and then the
\* return can run; and an exception that reaches the caller is the one the
\* model raised, before any receive.
C16_OnlyTheOracleFails ==
    /\ pc = "send" =>
           /\ speaker + 1 \in DOMAIN agents
           /\ request.content = SendContent(agents[speaker + 1])
           /\ ENABLED (\E content \in Replies : SendReturn(content))
    /\ pc = "broadcast" =>
           /\ speaker + 1 \in DOMAIN agents
           /\ i \in 0..NumAgents
           /\ IF i < NumAgents THEN ENABLED StepReceive ELSE ENABLED StepReturn
    /\ (pc = "idle" /\ returned.kind = "raised") =>
           /\ thrown \in Errors
           /\ returned.message = thrown
           /\ calls = << SendCall(speaker) >>

C16_Witness ==
    /\ pc = "broadcast"
    /\ NumAgents = 3
    /\ i = NumAgents
    /\ step = 2
    /\ speaker = 0
    /\ ENABLED StepReturn

(* -------------------------------- C17 --------------------------------- *)
\* C17: a step calls the model exactly once, whether the model answers or
\* raises: one call is in flight while send waits, none is made after the
\* answer or after the raise, and the caller gets the exception as the model
\* raised it.
C17_NoAutomaticRetry ==
    /\ InStep => oracleCalls = 1
    /\ pc = "send" => request # NoRequest
    /\ (pc # "send") => request = NoRequest
    /\ (pc = "idle" /\ returned.kind = "raised") => returned.message = thrown

C17_Witness ==
    /\ pc = "idle"
    /\ returned.kind = "raised"
    /\ returned.message = "rate limit"
    /\ oracleCalls = 1
    /\ step = 1

(* -------------------------------- C18 --------------------------------- *)
\* No two positions of the list hold agents with the same name.
UniqueNames ==
    \A a, b \in 1..NumAgents : a # b => agents[a].name # agents[b].name

\* C18, as claimed: in every reachable state the names in the list are unique.
C18_NamesAlwaysUnique == UniqueNames

\* C18, amended: neither class checks names, so a list may be built with a
\* repeated name; but no operation changes a name, so names that are unique
\* stay unique.
C18_UniquenessPreserved ==
    [][ UniqueNames => UniqueNames' ]_vars

C18_Witness ==
    /\ UniqueNames
    /\ NumAgents = 2
    /\ pc = "idle"
    /\ step = 2
    /\ NumResets = 2

(* ------------------------------ Main Loop ------------------------------ *)
\* The notebook's last cell: two agents, one reset, then max_iters steps.
protagonist_name == "Harry Potter"
storyteller_name == "Dungeon Master"
max_iters == 6

\* The loop counter n: the iterations the caller has finished.
n == Len(StepEntries)

MainInit ==
    /\ agents = << NewAgent(storyteller_name, "storyteller_system_message"),
                   NewAgent(protagonist_name, "protagonist_system_message") >>
    /\ step = 0
    /\ pc = "idle"
    /\ i = 0
    /\ args = << "", "" >>
    /\ speaker = 0
    /\ message = ""
    /\ request = NoRequest
    /\ answer = ""
    /\ thrown = ""
    /\ oracleCalls = 0
    /\ returned = NoReturn
    /\ history = << >>
    /\ calls = << >>
    /\ pre = Snapshot
    /\ heap = << >>
    /\ sims = << >>

\* simulator.reset(storyteller_name, specified_quest): the first statement
\* after the simulator is built.
MainReset ==
    /\ returned = NoReturn
    /\ \E specified_quest \in SeedMessages :
           ResetCall(storyteller_name, specified_quest)

\* Mutant: the loop runs before the simulator was reset.
MainStep_BeforeReset ==
    /\ returned.kind \in { "none", "ok" }
    /\ n < max_iters
    /\ StepBegin

\* Mutant: the loop condition is n <= max_iters.
MainStep_Inclusive ==
    /\ returned.kind \in { "reset", "ok" }
    /\ n <= max_iters
    /\ StepBegin

\* while n < max_iters: simulator.step(), reached once the statement before
\* it (reset, or the previous iteration) has finished without an exception.
MainStep ==
    /\ returned.kind \in { "reset", "ok" }
    /\ n < max_iters
    /\ StepBegin

MainNext ==
    \/ MainReset
    \/ ResetReceive
    \/ ResetReturn
    \/ MainStep
    \/ \E content \in Replies : SendReturn(content)
    \/ \E err \in Errors : SendRaise(err)
    \/ StepReceive
    \/ StepReturn

MainSpec == MainInit /\ [][MainNext]_vars

(* -------------------------------- C19 --------------------------------- *)
\* C19: in the main loop no step runs before reset has finished: whenever a
\* step is running, the caller has reset once, first, and every
\* message_history at the start of that step was the header, then the seed
\* entry, then the entries of the steps completed so far.
C19_SeededBeforeAnyTurn ==
    pc \in { "send", "broadcast" } =>
        /\ OnePrimeThenAdvances
        /\ \A a \in 1..NumAgents :
               /\ pre.agents[a].message_history # Header
               /\ pre.agents[a].message_history =
                      (Header \o Entry(history[1].name, history[1].message))
                          \o Render(Tail(history))

C19_Witness ==
    /\ pc = "send"
    /\ step = 2
    /\ history[1] = [ op |-> "reset", name |-> storyteller_name, message |-> "q" ]
    /\ request.content =
           Header \o Entry(storyteller_name, "q") \o Entry(protagonist_name, "x")
               \o Entry(storyteller_name, "x") \o Prefix(protagonist_name)

(* -------------------------------- C20 --------------------------------- *)
\* C20: DialogueSimulator has no turn limit of its own: whenever the caller
\* has control, whatever _step is and however the earlier calls ended, step can
\* be called and selects a speaker.  Only the caller's budget ends the run.
C20_NoBuiltInTermination ==
    pc = "idle" => ENABLED StepBegin

C20_Witness ==
    /\ pc = "idle"
    /\ NumResets >= 1
    /\ step = MaxSteps
    /\ ~ ENABLED StepCall
    /\ ENABLED StepBegin


(* -------------------------------- C21 --------------------------------- *)
\* The agents (0-based) that step's loop called receive on.
Receivers == { calls[k].agent : k \in ReceiveCalls }

\* C21: step 3 broadcasts the message to all other agents: after a
\* successful step the receivers are the agents other than the speaker.
\* (step's loop runs over every agent, the speaker included.)
C21_BroadcastToOthers ==
    (pc = "idle" /\ returned.kind = "ok") =>
        Receivers = (0..(NumAgents - 1)) \ { speaker }

(* -------------------------- two conversations -------------------------- *)
\* Two DialogueSimulator objects in one program.  heap holds the DialogueAgent
\* objects by reference; a simulator's agents is the list of references it
\* was built on (__init__ stores the caller's list, it copies no agent).
MaxPairAgents == 2
MaxCalls == 3

Refs == 1..(MaxPairAgents + 1)

PoolAgent(k) ==
    IF k % 2 = 1 THEN NewAgent("A", "be A") ELSE NewAgent("B", "be B")

NewSimulator(refs) ==
    [ agents |-> refs, step |-> 0, pc |-> "idle", i |-> 0, args |-> << "", "" >>,
      speaker |-> 0, message |-> "", last |-> "none", ncalls |-> 0 ]

\* The lists the first simulator may be built on: the first m objects.
PairRosters1 == { [ k \in 1..m |-> k ] : m \in 1..MaxPairAgents }

\* The lists the second may be built on: any objects, each once, in any order.
PairRosters2 ==
    { r \in UNION { [ 1..m -> Refs ] : m \in 1..MaxPairAgents } :
        \A a, b \in DOMAIN r : a # b => r[a] # r[b] }

PairInit ==
    /\ agents = << >>
    /\ step = 0
    /\ pc = "idle"
    /\ i = 0
    /\ args = << "", "" >>
    /\ speaker = 0
    /\ message = ""
    /\ request = NoRequest
    /\ answer = ""
    /\ thrown = ""
    /\ oracleCalls = 0
    /\ returned = NoReturn
    /\ history = << >>
    /\ calls = << >>
    /\ pre = [ agents |-> << >>, step |-> 0 ]
    /\ heap = [ k \in Refs |-> PoolAgent(k) ]
    /\ \E r1 \in PairRosters1, r2 \in PairRosters2 :
           sims = << NewSimulator(r1), NewSimulator(r2) >>

\* The caller has made fewer than MaxCalls calls on the two simulators.
CallsLeft == sims[1].ncalls + sims[2].ncalls < MaxCalls

\* sims[s].reset(name, message) is called.
SimResetCall(s, name, msg) ==
    /\ sims[s].pc = "idle"
    /\ CallsLeft
    /\ sims' = [ sims EXCEPT ![s].pc = "reset", ![s].i = 0,
                             ![s].args = << name, msg >>, ![s].ncalls = @ + 1 ]
    /\ UNCHANGED << heap, single >>

\* One iteration of reset's loop on sims[s].
SimResetReceive(s) ==
    /\ sims[s].pc = "reset"
    /\ sims[s].i < Len(sims[s].agents)
    /\ heap' = [ heap EXCEPT ![sims[s].agents[sims[s].i + 1]] =
                     receive(@, sims[s].args[1], sims[s].args[2]) ]
    /\ sims' = [ sims EXCEPT ![s].i = @ + 1 ]
    /\ UNCHANGED single

\* reset returns on sims[s].
SimResetReturn(s) ==
    /\ sims[s].pc = "reset"
    /\ sims[s].i = Len(sims[s].agents)
    /\ sims' = [ sims EXCEPT ![s].pc = "idle", ![s].last = "reset" ]
    /\ UNCHANGED << heap, single >>

\* sims[s].step() is called: the speaker is selected and its send() calls the
\* model.
SimStepBegin(s) ==
    /\ sims[s].pc = "idle"
    /\ CallsLeft
    /\ sims' = [ sims EXCEPT ![s].pc = "send",
                             ![s].speaker = (sims[s].step + 1) % Len(sims[s].agents),
                             ![s].ncalls = @ + 1 ]
    /\ UNCHANGED << heap, single >>

\* The model answers the speaker of sims[s].
SimSendReturn(s, content) ==
    /\ sims[s].pc = "send"
    /\ sims' = [ sims EXCEPT ![s].pc = "broadcast", ![s].i = 0,
                             ![s].message = content ]
    /\ UNCHANGED << heap, single >>

\* The model call of sims[s] raises; the exception leaves step().
SimSendRaise(s) ==
    /\ sims[s].pc = "send"
    /\ sims' = [ sims EXCEPT ![s].pc = "idle", ![s].last = "raised" ]
    /\ UNCHANGED << heap, single >>

\* One iteration of step's loop on sims[s].
SimStepReceive(s) ==
    /\ sims[s].pc = "broadcast"
    /\ sims[s].i < Len(sims[s].agents)
    /\ heap' = [ heap EXCEPT ![sims[s].agents[sims[s].i + 1]] =
                     receive(@, heap[sims[s].agents[sims[s].speaker + 1]].name,
                             sims[s].message) ]
    /\ sims' = [ sims EXCEPT ![s].i = @ + 1 ]
    /\ UNCHANGED single

\* Mutant: _step is an attribute of the class, one counter for every simulator.
SimStepReturn_ClassCounter(s) ==
    /\ sims[s].pc = "broadcast"
    /\ sims[s].i = Len(sims[s].agents)
    /\ sims' = [ t \in DOMAIN sims |->
                   IF t = s
                     THEN [ sims[t] EXCEPT !.pc = "idle", !.last = "ok",
                                           !.step = @ + 1 ]
                     ELSE [ sims[t] EXCEPT !.step = @ + 1 ] ]
    /\ UNCHANGED << heap, single >>

\* step's loop is over on sims[s]: increment time and return.
SimStepReturn(s) ==
    /\ sims[s].pc = "broadcast"
    /\ sims[s].i = Len(sims[s].agents)
    /\ sims' = [ sims EXCEPT ![s].pc = "idle", ![s].last = "ok",
                             ![s].step = @ + 1 ]
    /\ UNCHANGED << heap, single >>

PairNext ==
    \/ \E s \in 1..2, msg \in SeedMessages : SimResetCall(s, "N", msg)
    \/ \E s \in 1..2 : SimResetReceive(s)
    \/ \E s \in 1..2 : SimResetReturn(s)
    \/ \E s \in 1..2 : SimStepBegin(s)
    \/ \E s \in 1..2 : SimSendReturn(s, "x")
    \/ \E s \in 1..2 : SimSendRaise(s)
    \/ \E s \in 1..2 : SimStepReceive(s)
    \/ \E s \in 1..2 : SimStepReturn(s)

PairSpec == PairInit /\ [][PairNext]_vars

(* -------------------------------- C22 --------------------------------- *)
\* The agent objects of simulator s.
RosterOf(s) == { sims[s].agents[k] : k \in DOMAIN sims[s].agents }

\* The two simulators share no agent object.
DisjointRosters == RosterOf(1) \cap RosterOf(2) = { }

\* What a conversation is to its caller: each agent's message_history, in
\* roster order, and _step.
Conversation(h, sim) ==
    [ transcripts |-> [ k \in DOMAIN sim.agents |-> h[sim.agents[k]].message_history ],
      step        |-> sim.step ]

\* C22: two simulators built on disjoint lists of agents are isolated: a step
\* of either one (a reset or step call, its loop iterations, the model's
\* answer or exception, the return) changes no message_history of the other's
\* agents and not the other's _step, whatever the interleaving.
C22_Isolation ==
    [][ DisjointRosters =>
            \A s \in 1..2 :
                sims'[s] # sims[s] =>
                    /\ Conversation(heap', sims'[3 - s]) = Conversation(heap, sims[3 - s])
                    /\ sims'[3 - s] = sims[3 - s] ]_vars

C22_Witness ==
    /\ sims # << >>
    /\ DisjointRosters
    /\ sims[1].last = "raised"
    /\ sims[1].pc = "send"
    /\ sims[2].pc = "broadcast"
    /\ sims[2].i = 1
    /\ Len(sims[2].agents) = 2

(* -------------------------------- C23 --------------------------------- *)
\* C23: the list of agents is fixed: no step of reset or step (the call, a
\* loop iteration, the model's answer or exception, the return) adds, removes
\* or moves an agent: the list keeps its length and every position keeps its
\* agent, of which at most the message_history has changed.
C23_RosterFixed ==
    [][ /\ Len(agents') = Len(agents)
        /\ DOMAIN agents' = DOMAIN agents
        /\ \A a \in 1..Len(agents) :
               [ agents'[a] EXCEPT !.message_history = agents[a].message_history ]
                   = agents[a] ]_vars

C23_Witness ==
    /\ pc = "idle"
    /\ returned.kind = "raised"
    /\ NumResets = 1
    /\ step = 2
    /\ Len(agents) = 3
    /\ agents[1].name = "A"
    /\ agents[2].name = "B"
    /\ agents[3].name = "B"

(* -------------------------------- C24 --------------------------------- *)
\* C24: an agent's name, system_message and prefix never change, and the
\* prefix is the cue made from the name at construction: in every state each
\* agent carries the name and system_message of one of the agents the caller
\* built and the prefix "\n<name>:", and no step changes any of the three.
C24_IdentityAndDirectiveImmutable ==
    [][ /\ \A a \in 1..Len(agents) :
               /\ << agents[a].name, agents[a].system_message >> \in Personas
               /\ agents[a].prefix = Prefix(agents[a].name)
        /\ \A a \in 1..Len(agents') :
               /\ agents'[a].name = agents[a].name
               /\ agents'[a].system_message = agents[a].system_message
               /\ agents'[a].prefix = agents[a].prefix
               /\ agents'[a].prefix = "\n" \o agents'[a].name \o ":" ]_vars

C24_Witness ==
    /\ pc = "idle"
    /\ returned.kind = "ok"
    /\ NumResets = 1
    /\ history[1].name = "N"
    /\ step = 2
    /\ NumAgents = 2
    /\ agents[1].name = "A"
    /\ agents[1].system_message = "be A"
    /\ agents[1].prefix = "\nA:"
    /\ agents[2].prefix = "\nB:"

(* -------------------------------- C25 --------------------------------- *)
\* The model or the caller has control: the only points where anything
\* outside reset and step can look at the agents.
Observable == pc \in { "idle", "send" }

\* Every agent's message_history is pre's with the text e added.
AllAbsorbed(e) ==
    \A a \in 1..NumAgents :
        agents[a].message_history = pre.agents[a].message_history \o e

\* C25: no partial broadcast can be observed.  The model call in send is the
\* only place where reset and step wait: at most one call is in flight, and
\* only there.  Whenever the model or the caller has control all the
\* message_history strings are equal, and of the current call's entry either
\* no agent has it or every agent has it; agents that differ exist only inside
\* the two loops, where the first i agents have the entry and the rest not.
C25_NoPartialBroadcast ==
    /\ (request # NoRequest) <=> (pc = "send")
    /\ oracleCalls <= 1
    /\ Observable =>
           /\ \A a, b \in 1..NumAgents :
                  agents[a].message_history = agents[b].message_history
           /\ \/ agents = pre.agents
              \/ returned.kind = "ok" /\ AllAbsorbed(Entry(returned.name, returned.message))
              \/ returned.kind = "reset" /\ AllAbsorbed(Entry(args[1], args[2]))
    /\ ~ Observable =>
           \A a \in 1..NumAgents :
               agents[a].message_history =
                   IF a > i THEN pre.agents[a].message_history
                   ELSE pre.agents[a].message_history
                            \o (IF pc = "reset" THEN Entry(args[1], args[2])
                                ELSE Entry(agents[speaker + 1].name, message))

C25_Witness ==
    /\ pc = "send"
    /\ request # NoRequest
    /\ NumAgents = 3
    /\ step = 2
    /\ NumResets = 1
    /\ \A a \in 1..NumAgents :
           agents[a].message_history =
               Header \o Entry("N", "q") \o Entry("B", "x") \o Entry("A", "y\nB: z")

(* -------------------------------- C26 --------------------------------- *)
\* C26: a message_history has one writer path.  A step that changes an agent
\* is an iteration of reset's loop or of the loop of a step whose send has
\* succeeded, and it changes the one agent the loop is at; selecting the
\* speaker changes neither the agents nor _step and gives (_step + 1) mod K;
\* a step whose send fails starts, waits and ends without changing an agent.
C26_SingleWriterPath ==
    [][ /\ agents' # agents =>
               /\ pc \in { "reset", "broadcast" }
               /\ pc' = pc
               /\ i' = i + 1
               /\ \A a \in 1..NumAgents : a # i + 1 => agents'[a] = agents[a]
               /\ pc = "broadcast" => (thrown = "" /\ message = answer)
        /\ (pc = "idle" /\ pc' = "send") =>
               /\ agents' = agents
               /\ step' = step
               /\ speaker' = (step + 1) % Len(agents)
        /\ pc = "send" => agents' = agents
        /\ (pc' = "idle" /\ returned'.kind = "raised") => agents' = pre.agents
      ]_vars

C26_Witness ==
    /\ pc = "idle"
    /\ returned.kind = "raised"
    /\ NumAgents = 2
    /\ step = 1
    /\ NumResets = 1
    /\ agents = pre.agents
    /\ agents[1].message_history = Header \o Entry("A", "q") \o Entry("B", "x")

(* -------------------------------- C27 --------------------------------- *)
\* C27: what send hands to the model is the header "Here is the conversation
\* so far.", then one "\n<name>: <message>" per seed and per completed step,
\* in the order they happened (nothing of a failed step, nothing left out),
\* then the cue "\n<name>:" of the selected agent; the system message handed
\* over with it is the selected agent's own.
C27_OracleInput ==
    pc = "send" =>
        /\ request.content =
               (Header \o Render(history)) \o ("\n" \o agents[speaker + 1].name \o ":")
        /\ request.system = agents[speaker + 1].system_message
        /\ speaker = select_next_speaker(Len(StepEntries))
        /\ Len(request.content) =
               Len(Header) + Len(Render(history)) + Len(agents[speaker + 1].name) + 2

C27_Witness ==
    /\ pc = "send"
    /\ returned.kind = "raised"
    /\ NumAgents = 2
    /\ request.system = "be A"
    /\ request.content =
           Header \o Entry("N", "q") \o Entry("B", "y\nB: z") \o "\nA:"

(* -------------------------------- C28 --------------------------------- *)
\* No agent of the list carries this name.
NonMember(name) == \A a \in 1..NumAgents : agents[a].name # name

\* The entry of the last finished call is equal to an earlier entry.
Repeated ==
    /\ Len(history) >= 2
    /\ \E k \in 1..(Len(history) - 1) :
           /\ history[k].name = history[Len(history)].name
           /\ history[k].message = history[Len(history)].message

\* C28: receive has no condition.  Each iteration of reset's loop can run,
\* whatever the name and the message; and when the call that just finished
\* carried a name that is no agent's, or an entry every agent already had,
\* each message_history still grew by exactly that entry.
C28_AbsorbUnconditional ==
    /\ (pc = "reset" /\ i < NumAgents) => ENABLED ResetReceive
    /\ (/\ pc = "idle"
        /\ returned.kind \in { "reset", "ok" }
        /\ NonMember(history[Len(history)].name) \/ Repeated) =>
           LET e == history[Len(history)] IN
           \A a \in 1..NumAgents :
               /\ agents[a].message_history =
                      pre.agents[a].message_history \o Entry(e.name, e.message)
               /\ Len(agents[a].message_history) =
                      Len(pre.agents[a].message_history)
                          + Len(e.name) + Len(e.message) + 3

C28_Witness ==
    /\ pc = "idle"
    /\ returned.kind = "reset"
    /\ NonMember(args[1])
    /\ Repeated
    /\ NumAgents = 3
    /\ Len(history) = 3
    /\ history[2].op = "step"
    /\ agents[3].message_history =
           Header \o Entry("N", "q") \o Entry("B", "x") \o Entry("N", "q")

(* -------------------------------- C29 --------------------------------- *)
\* The main loop with a model that always answers: the program keeps running
\* (no statement waits for ever).
LoopNext ==
    \/ MainReset
    \/ ResetReceive
    \/ ResetReturn
    \/ MainStep
    \/ \E content \in Replies : SendReturn(content)
    \/ StepReceive
    \/ StepReturn

LoopSpec == MainInit /\ [][LoopNext]_vars /\ WF_vars(LoopNext)

\* The step calls the main loop has made so far: one per iteration finished,
\* the call that is running, and the call that raised (the exception leaves
\* the while loop, so in the main loop there is at most one, the last).
StepCalls ==
    Len(StepEntries)
        + (IF pc \in { "send", "broadcast" } THEN 1 ELSE 0)
        + (IF returned.kind = "raised" THEN 1 ELSE 0)

\* The while loop has ended: reset once, then max_iters steps.
LoopDone ==
    /\ pc = "idle"
    /\ ~ ENABLED LoopNext
    /\ NumResets = 1
    /\ history[1].op = "reset"
    /\ StepCalls = max_iters
    /\ n = max_iters
    /\ step = max_iters
    /\ Len(history) = max_iters + 1
    /\ \A a \in 1..NumAgents :
           agents[a].message_history = Header \o Render(history)

\* C29: with max_iters = M and a model that always answers, the main loop
\* resets once, before the first step, makes M step calls and no more, and
\* ends; from then on _step = M and every message_history holds the seed and
\* the M entries of the steps.
C29_DriverLoop ==
    /\ [](/\ NumResets <= 1
          /\ StepCalls <= max_iters
          /\ StepCalls >= 1 => (NumResets = 1 /\ history[1].op = "reset")
          /\ step = n
          /\ (pc = "idle" /\ ~ ENABLED LoopNext) => LoopDone)
    /\ <>[]LoopDone

C29_Witness ==
    /\ LoopDone
    /\ step = 6
    /\ Len(history) = 7
    /\ history[7].name = storyteller_name
    /\ history[6].name = protagonist_name

(* -------------------------------- C30 --------------------------------- *)
\* The receive calls the call that just finished made on agent a (0-based).
ReceivedBy(a) == { k \in ReceiveCalls : calls[k].agent = a }

\* C30: whenever the caller has control, every message_history holds as many
\* entries as the reset calls made plus _step: it is the header and the
\* rendering of that many entries, a finished reset or successful step having
\* called receive once on each agent and a failed step on none.  After one
\* reset and n successful steps that is n + 1 entries, whatever failed.
C30_LengthInvariant ==
    pc = "idle" =>
        /\ Len(history) = NumResets + step
        /\ \A a \in 1..NumAgents :
               /\ agents[a].message_history = Header \o Render(history)
               /\ Len(agents[a].message_history) = Len(Header) + Len(Render(history))
               /\ Cardinality(ReceivedBy(a - 1)) =
                      IF returned.kind \in { "reset", "ok" } THEN 1 ELSE 0
        /\ OnePrimeThenAdvances => Len(history) = step + 1

C30_Witness ==
    /\ pc = "idle"
    /\ returned.kind = "raised"
    /\ NumResets = 2
    /\ step = 2
    /\ Len(history) = 4
    /\ NumAgents = 2
    /\ history[1].op = "reset"
    /\ history[2].op = "step"

(* -------------------------------- C31 --------------------------------- *)
\* A caller that keeps calling step, with a model that always answers; the
\* program keeps running.
TurnsNext ==
    \/ StepCall
    \/ \E content \in Replies : SendReturn(content)
    \/ StepReceive
    \/ StepReturn

TurnsSpec == Init /\ [][TurnsNext]_vars /\ WF_vars(TurnsNext)

\* How many of the completed steps agent a (0-based) has spoken.
SpokenBy(a) ==
    Cardinality({ k \in DOMAIN StepEntries : StepEntries[k].agent = a })

\* C31: round robin is fair.  Of any K completed steps in a row each of the K
\* agents has spoken one, so exactly one each; the step K after a step has
\* the same speaker; and as long as the caller goes on for K more steps and
\* the model answers, every agent speaks again.
C31_RoundRobinFair ==
    /\ [](/\ \A t \in 0..Len(StepEntries) :
                t + NumAgents <= Len(StepEntries) =>
                    /\ { StepEntries[t + j].agent : j \in 1..NumAgents }
                           = 0..(NumAgents - 1)
                    /\ \A a \in 0..(NumAgents - 1) :
                           Cardinality({ j \in 1..NumAgents :
                                           StepEntries[t + j].agent = a }) = 1
          /\ \A t \in 1..Len(StepEntries) :
                t + NumAgents <= Len(StepEntries) =>
                    StepEntries[t + NumAgents].agent = StepEntries[t].agent)
    /\ \A a \in 0..(MaxAgents - 1), c \in 0..MaxSteps :
           (a < NumAgents /\ SpokenBy(a) = c /\ n + NumAgents <= MaxSteps)
               ~> (SpokenBy(a) > c)

C31_Witness ==
    /\ pc = "idle"
    /\ NumAgents = 3
    /\ Len(StepEntries) = 3
    /\ StepEntries[1].agent = 1
    /\ StepEntries[2].agent = 2
    /\ StepEntries[3].agent = 0
    /\ SpokenBy(0) = 1

(* -------------------------------- C32 --------------------------------- *)
\* C32: with a single agent, select_next_speaker gives 0 for every _step: the
\* one agent speaks in every step and receives what it said itself (one send,
\* then one receive, both on agent 0), and whenever the caller has control its
\* message_history is the header and all that was said: after one reset, the
\* seed followed by the agent's own lines.
C32_SingleMember ==
    NumAgents = 1 =>
        /\ \A t \in 0..MaxSteps : select_next_speaker(t) = 0
        /\ InStep => speaker = 0
        /\ \A k \in 1..Len(StepEntries) :
               /\ StepEntries[k].agent = 0
               /\ StepEntries[k].name = agents[1].name
        /\ (pc = "idle" /\ returned.kind = "ok") =>
               calls = << SendCall(0), ReceiveCall(0, agents[1].name, answer) >>
        /\ pc = "idle" =>
               /\ agents[1].message_history = Header \o Render(history)
               /\ OnePrimeThenAdvances =>
                      /\ history[1].op = "reset"
                      /\ Render(Tail(history)) = Render(StepEntries)
                      /\ \A k \in 2..Len(history) : history[k].name = agents[1].name

C32_Witness ==
    /\ NumAgents = 1
    /\ pc = "idle"
    /\ OnePrimeThenAdvances
    /\ step = 3
    /\ agents[1].message_history =
           Header \o Entry("N", "q") \o Entry("A", "x") \o Entry("A", "y\nB: z")
               \o Entry("A", "x")

(* -------------------------------- C33 --------------------------------- *)
\* C33: the agents' message_history strings are identical whenever the caller
\* has control, not only after a completed step: before any reset each is the
\* bare header, with no entry, and after any sequence of resets, successful
\* steps and failed steps any two of them are the same string, also right
\* after a failed step, which leaves them as it found them.
C33_EqualAtEveryControlPoint ==
    pc = "idle" =>
        /\ \A a, b \in 1..NumAgents :
               /\ agents[a].message_history = agents[b].message_history
               /\ Len(agents[a].message_history) = Len(agents[b].message_history)
        /\ history = << >> =>
               \A a \in 1..NumAgents :
                   /\ agents[a].message_history = Header
                   /\ Render(history) = ""
        /\ returned.kind = "raised" =>
               \A a, b \in 1..NumAgents :
                   agents[a].message_history = pre.agents[b].message_history

C33_Witness ==
    /\ pc = "idle"
    /\ returned.kind = "raised"
    /\ NumAgents = 3
    /\ agents[1].name # agents[2].name
    /\ NumResets = 2
    /\ step = 1
    /\ history[2].op = "step"
    /\ \A a \in 1..NumAgents :
           agents[a].message_history =
               Header \o Entry("A", "q") \o Entry("B", "y\nB: z") \o Entry("N", "q")
=============================================================================
